---------------------------- MODULE Spec2Model ----------------------------
(***************************************************************************)
(* A model of exorde/protocol/__init__.py: the gateway rotator, the gas    *)
(* estimation cache, the confirmation flow of send_raw_transaction and the *)
(* faucet funding flow, against a remote ledger that may fail, stall or     *)
(* mine at any time.                                                       *)
(*                                                                         *)
(* Gas quantities are kept in units of 1/ScaleDen gas, so that the         *)
(* floating point product "E * 1.5" of the source stays an exact integer.  *)
(***************************************************************************)
EXTENDS Integers, Sequences, FiniteSets, TLC

VARIABLES
    gens,        \* gateway generators: gens[g] is the next value of g's itertools.count()
    pulled,      \* pulled[g]: the URLs generator g has yielded so far, in order
    gas_cache,   \* the gas cache: a function from gas keys to cached gas
    est,         \* est[f]: the estimate_gas invocation of flow f
    est_calls,   \* est_calls[k]: remote estimate_gas RPCs issued for gas key k
    ncalls,      \* estimate_gas invocations started so far
    tx_count,    \* the ledger: tx_count[a] is account a's transaction count
    pool,        \* the ledger: transactions broadcast and accepted, not yet mined
    mined,       \* the ledger: hashes of the mined transactions (a receipt exists)
    send,        \* the send_raw_transaction invocation of the worker
    nsends,      \* send_raw_transaction invocations started so far
    fau,         \* the faucet invocation of the worker
    nfunds,      \* faucet invocations started so far
    selected_faucet, \* what select_random_faucet returned last
    sent,        \* the ledger: the transactions it accepted, in the order of broadcast
    keys_file,   \* ~/.config/exorde/keys.json and its directory
    loads,       \* the calls of worker_address so far, in order
    wrk          \* the worker's nonce / build / sign / send run

gwVars    == <<gens, pulled>>
gasVars   == <<gas_cache, est, est_calls, ncalls>>
chainVars == <<tx_count, pool, mined, sent>>
sendVars  == <<send, nsends>>
fauVars   == <<fau, nfunds>>
keyVars == <<keys_file, loads>>
otherVars == <<selected_faucet, wrk, keyVars>>
vars      == <<gens, pulled, gas_cache, est, est_calls, ncalls,
               tx_count, pool, mined, send, nsends, fau, nfunds,
               selected_faucet, sent, wrk, keys_file, loads>>

\* What an action of one component leaves alone.
notGw   == <<gasVars, chainVars, sendVars, fauVars, otherVars>>
notGas  == <<gwVars, chainVars, sendVars, fauVars, otherVars>>

-----------------------------------------------------------------------------
(* Helpers *)

RECURSIVE CountIn(_, _)
\* The number of positions of the sequence s that hold x.
CountIn(x, s) ==
    IF s = <<>> THEN 0
    ELSE (IF Head(s) = x THEN 1 ELSE 0) + CountIn(x, Tail(s))

\* Python's s[lo:hi] on a sequence of characters (0-based, hi exclusive, clamped).
Slice(s, lo, hi) ==
    LET h == IF hi < Len(s) THEN hi ELSE Len(s)
    IN  IF lo >= h THEN <<>> ELSE SubSeq(s, lo + 1, h)

Max(a, b) == IF a >= b THEN a ELSE b

-----------------------------------------------------------------------------
(* rotate_gateways *)

MaxGens  == 2     \* generators created
MaxPulls == 14    \* elements pulled from one generator (2 * N)

gateways ==
    << "http://ipfs-gateway.exorde.network/ipfs/",
       "http://ipfs-gateway.exorde.network/ipfs/",
       "http://ipfs-gateway.exorde.network/ipfs/",
       "https://w3s.link/ipfs/",
       "https://ipfs.io/ipfs/",
       "https://ipfs.eth.aragon.network/ipfs/",
       "https://api.ipfsbrowser.com/ipfs/get.php?hash=" >>

N == Len(gateways)

\* A generator that forgets the modulus walks off the list; it wraps one early here.
GatewayAtShort(i) == gateways[(i % (N - 1)) + 1]

\* gateways[i % len(gateways)], with Python's 0-based index i.
GatewayAt(i) == gateways[(i % N) + 1]

\* rotate_gateways(): a new generator over its own itertools.count().
rotate_gateways ==
    /\ Len(gens) < MaxGens
    /\ gens' = Append(gens, 0)
    /\ pulled' = Append(pulled, <<>>)
    /\ UNCHANGED notGw

\* A rotator whose generators all draw from one module-level counter.
GenNextShared(g) ==
    /\ gens[g] < MaxPulls
    /\ pulled' = [pulled EXCEPT ![g] = Append(@, GatewayAt(gens[g]))]
    /\ gens' = [h \in DOMAIN gens |-> gens[g] + 1]
    /\ UNCHANGED notGw

\* next(g): yield gateways[i % N] for the next i of g's own counter.
GenNext(g) ==
    /\ gens[g] < MaxPulls
    /\ pulled' = [pulled EXCEPT ![g] = Append(@, GatewayAt(gens[g]))]
    /\ gens' = [gens EXCEPT ![g] = @ + 1]
    /\ UNCHANGED notGw

-----------------------------------------------------------------------------
(* estimate_gas and the gas cache *)

MaxCalls == 4     \* estimate_gas invocations

ScaleNum == 3     \* "* 1.5" is * ScaleNum / ScaleDen
ScaleDen == 2
DEFAULT_GAS == 100000
SMALL_ESTIMATE == 100000
SMALL_BONUS == 500000
GAS_FLOOR == 10000000

Flows == {"f1", "f2"}

Chars(hex) == <<"0", "x">> \o hex

\* transaction["data"] as str() renders it: "0x", the 8 hex digits of the
\* function selector, then the arguments.
Data ==
    { Chars(<<"a","9","0","5","9","c","b","b","0","0">>),
      Chars(<<"a","9","0","5","9","c","b","b","1","1">>),
      Chars(<<"a","9","0","5","9","c","b","b","0","0","1","1">>),
      Chars(<<"2","3","b","8","7","2","d","d","0","0">>),
      Chars(<<>>) }

\* What the remote estimator may answer, in gas.
RawEstimates == {0, 66666, 66667, 99999, 100000, 6666666, 6666667, 7000000}

\* gas_key = (str(data)[2:10], len(str(data)))
GasKey(data) == <<Slice(data, 2, 10), Len(data)>>

GasKeys == { GasKey(d) : d \in Data }

NoData == <<>>
Unset == -1

\* do_estimate_gas without the final max(): the value is returned as computed.
do_estimate_gas_nofloor(E) ==
    LET estimate == E * ScaleNum
        gas == IF estimate < SMALL_ESTIMATE * ScaleDen
               THEN estimate + SMALL_BONUS * ScaleDen
               ELSE DEFAULT_GAS * ScaleDen
    IN  gas

\* do_estimate_gas for a raw remote answer E; the result is in 1/ScaleDen gas.
do_estimate_gas(E) ==
    LET estimate == E * ScaleNum
        gas == IF estimate < SMALL_ESTIMATE * ScaleDen
               THEN estimate + SMALL_BONUS * ScaleDen
               ELSE DEFAULT_GAS * ScaleDen
    IN  Max(GAS_FLOOR * ScaleDen, gas)

\* A lookup that never finds the key.
InCacheNever(k) == FALSE

\* gas_key in gas_cache
InCache(k) == k \in DOMAIN gas_cache

\* estimate_gas(transaction, read_web3, gas_cache) up to its first suspension:
\* a hit fills transaction["gas"] and returns; a miss issues the remote call.
estimate_gas(f, d) ==
    /\ est[f].pc # "estimating"
    /\ ncalls < MaxCalls
    /\ ncalls' = ncalls + 1
    /\ IF InCache(GasKey(d))
       THEN /\ est' = [est EXCEPT ![f] = [pc |-> "returned", data |-> d,
                                           gas |-> gas_cache[GasKey(d)],
                                           raw |-> Unset, hit |-> TRUE]]
            /\ UNCHANGED <<gas_cache, est_calls>>
       ELSE /\ est' = [est EXCEPT ![f] = [pc |-> "estimating", data |-> d,
                                           gas |-> Unset,
                                           raw |-> Unset, hit |-> FALSE]]
            /\ est_calls' = [est_calls EXCEPT ![GasKey(d)] = @ + 1]
            /\ UNCHANGED gas_cache
    /\ UNCHANGED notGas

\* The cache with key k set to v.
CachePut(k, v) ==
    [x \in DOMAIN gas_cache \cup {k} |-> IF x = k THEN v ELSE gas_cache[x]]

\* A miss branch that stores the estimate and leaves transaction["gas"] unset.
EstimateReturnNoGas(f, E) ==
    /\ est[f].pc = "estimating"
    /\ gas_cache' = CachePut(GasKey(est[f].data), do_estimate_gas(E))
    /\ est' = [est EXCEPT ![f].pc = "returned", ![f].raw = E]
    /\ UNCHANGED <<est_calls, ncalls>>
    /\ UNCHANGED notGas

\* The remote estimator answers E: the miss branch stores and returns.
EstimateReturn(f, E) ==
    /\ est[f].pc = "estimating"
    /\ LET k == GasKey(est[f].data)
           estimate == do_estimate_gas(E)
       IN  /\ gas_cache' = CachePut(k, estimate)
           /\ est' = [est EXCEPT ![f].pc = "returned", ![f].raw = E,
                                 ![f].gas = gas_cache'[k]]
    /\ UNCHANGED <<est_calls, ncalls>>
    /\ UNCHANGED notGas

\* A failure branch that caches the default gas and returns normally.
EstimateRaiseDefaulted(f) ==
    /\ est[f].pc = "estimating"
    /\ gas_cache' = CachePut(GasKey(est[f].data), DEFAULT_GAS * ScaleDen)
    /\ est' = [est EXCEPT ![f].pc = "returned",
                          ![f].gas = DEFAULT_GAS * ScaleDen]
    /\ UNCHANGED <<est_calls, ncalls>>
    /\ UNCHANGED notGas

\* The remote estimator fails: the exception leaves estimate_gas.
EstimateRaise(f) ==
    /\ est[f].pc = "estimating"
    /\ est' = [est EXCEPT ![f].pc = "raised"]
    /\ UNCHANGED <<gas_cache, est_calls, ncalls>>
    /\ UNCHANGED notGas

\* One caller at a time: no invocation starts while another awaits the remote.
estimate_gas_seq(f, d) ==
    /\ \A q \in Flows : est[q].pc # "estimating"
    /\ estimate_gas(f, d)

-----------------------------------------------------------------------------
(* The remote ledger, as the RPC calls of the flows see it *)

MaxCount == 2     \* transactions an account gets mined

Accounts == {"worker", "faucet"}

\* An RPC call made by a flow, with how it ended.
Rpc(call, result) == [call |-> call, result |-> result]

\* The calls named c in the trace of RPC calls r.
RECURSIVE CallsOf(_, _)
CallsOf(c, r) ==
    IF r = <<>> THEN 0
    ELSE (IF Head(r).call = c THEN 1 ELSE 0) + CallsOf(c, Tail(r))

\* The ledger accepts a broadcast whose nonce is not used up and not taken
\* by a transaction already waiting in the pool.
Acceptable(t) ==
    /\ t.nonce >= tx_count[t.from]
    /\ \A u \in pool : ~(u.from = t.from /\ u.nonce = t.nonce)

\* The ledger mines a waiting transaction whose nonce is the account's next.
Mine ==
    /\ \E t \in pool :
         /\ t.nonce = tx_count[t.from]
         /\ tx_count[t.from] < MaxCount
         /\ tx_count' = [tx_count EXCEPT ![t.from] = @ + 1]
         /\ pool' = pool \ {t}
         /\ mined' = mined \cup {t.hash}
         /\ UNCHANGED sent
    /\ UNCHANGED <<otherVars, gwVars, gasVars, sendVars, fauVars>>

\* The ledger drops a waiting transaction: it will never be mined.
Drop ==
    /\ \E t \in pool : pool' = pool \ {t}
    /\ UNCHANGED <<tx_count, mined, sent>>
    /\ UNCHANGED <<otherVars, gwVars, gasVars, sendVars, fauVars>>

\* A transaction of account a sent by somebody else is mined.
OtherTx(a) ==
    /\ tx_count[a] < MaxCount
    /\ tx_count' = [tx_count EXCEPT ![a] = @ + 1]
    /\ UNCHANGED <<pool, mined, sent>>
    /\ UNCHANGED <<otherVars, gwVars, gasVars, sendVars, fauVars>>

-----------------------------------------------------------------------------
(* send_raw_transaction *)

MaxSends == 2      \* send_raw_transaction invocations
POLL_ATTEMPTS == 10
SLEEP_STEP == 3    \* sleep_time = i * 1.5 + 1, in half seconds: i * SLEEP_STEP + SLEEP_BASE
SLEEP_BASE == 2

NoHash == 0

\* The record every path of send_raw_transaction returns.
FixedRecord == [transaction |-> "None", current_cid_commit |-> "None"]

SendIdle ==
    [pc |-> "idle", transaction |-> [from |-> "worker", nonce |-> 0, hash |-> NoHash],
     previous_nonce |-> Unset, current_nounce |-> Unset, i |-> 0,
     transaction_hash |-> NoHash, rpc |-> <<>>, slept |-> <<>>, log |-> <<>>,
     caught |-> "none", outcome |-> "none", error |-> "none", value |-> "none"]

\* A wait that sleeps the same time before every attempt.
SleepTimeFlat(i) == SLEEP_BASE

\* sleep_time for attempt i, in half seconds.
SleepTime(i) == i * SLEEP_STEP + SLEEP_BASE

\* The caller invokes send_raw_transaction with a transaction signed with nonce n.
send_raw_transaction(n) ==
    /\ send.pc \in {"idle", "done"}
    /\ nsends < MaxSends
    /\ nsends' = nsends + 1
    /\ send' = [SendIdle EXCEPT !.pc = "read_previous_nonce",
                                !.transaction = [from |-> "worker", nonce |-> n,
                                                 hash |-> nsends + 1]]
    /\ UNCHANGED <<otherVars, gwVars, gasVars, chainVars, fauVars>>

\* previous_nonce = await read_web3.eth.get_transaction_count(worker_address)
SendReadPrevious ==
    /\ send.pc = "read_previous_nonce"
    /\ send' = [send EXCEPT !.pc = "broadcast",
                            !.previous_nonce = tx_count["worker"],
                            !.rpc = Append(@, Rpc("get_transaction_count", "ok"))]
    /\ UNCHANGED <<otherVars, gwVars, gasVars, chainVars, nsends, fauVars>>

\* A baseline read whose failure is swallowed: the flow goes on with nonce 0.
SendReadPreviousFailDefaulted ==
    /\ send.pc = "read_previous_nonce"
    /\ send' = [send EXCEPT !.pc = "broadcast",
                            !.previous_nonce = 0,
                            !.rpc = Append(@, Rpc("get_transaction_count", "NetworkError"))]
    /\ UNCHANGED <<otherVars, gwVars, gasVars, chainVars, nsends, fauVars>>

\* The baseline read fails: the exception reaches the except clause.
SendReadPreviousFail ==
    /\ send.pc = "read_previous_nonce"
    /\ send' = [send EXCEPT !.pc = "except",
                            !.caught = "NetworkError",
                            !.rpc = Append(@, Rpc("get_transaction_count", "NetworkError"))]
    /\ UNCHANGED <<otherVars, gwVars, gasVars, chainVars, nsends, fauVars>>

\* A broadcast issued before the baseline: the count is read again once
\* the ledger has accepted the transaction.
SendBroadcastThenBaseline ==
    /\ send.pc = "broadcast"
    /\ Acceptable(send.transaction)
    /\ pool' = pool \cup {send.transaction}
    /\ sent' = Append(sent, send.transaction)
    /\ send' = [send EXCEPT !.pc = "sleep",
                            !.i = 0,
                            !.previous_nonce = tx_count["worker"],
                            !.transaction_hash = send.transaction.hash,
                            !.rpc = Append(@, Rpc("send_raw_transaction", "ok")),
                            !.log = @ \o <<"A transaction has been sent",
                                           "Waiting for transaction confirmation">>]
    /\ UNCHANGED <<otherVars, gwVars, gasVars, tx_count, mined, nsends, fauVars>>

\* transaction_hash = await write_web3.eth.send_raw_transaction(rawTransaction),
\* accepted by the ledger; then the two logging.info lines.
SendBroadcast ==
    /\ send.pc = "broadcast"
    /\ Acceptable(send.transaction)
    /\ pool' = pool \cup {send.transaction}
    /\ sent' = Append(sent, send.transaction)
    /\ send' = [send EXCEPT !.pc = "sleep",
                            !.i = 0,
                            !.transaction_hash = send.transaction.hash,
                            !.rpc = Append(@, Rpc("send_raw_transaction", "ok")),
                            !.log = @ \o <<"A transaction has been sent",
                                           "Waiting for transaction confirmation">>]
    /\ UNCHANGED <<otherVars, gwVars, gasVars, tx_count, mined, nsends, fauVars>>

\* The ledger rejects the broadcast (insufficient funds, nonce too low, ...).
SendBroadcastReject ==
    /\ send.pc = "broadcast"
    /\ send' = [send EXCEPT !.pc = "except",
                            !.caught = "BroadcastError",
                            !.rpc = Append(@, Rpc("send_raw_transaction", "BroadcastError"))]
    /\ UNCHANGED <<otherVars, gwVars, gasVars, chainVars, nsends, fauVars>>

\* await asyncio.sleep(sleep_time) of attempt i.
SendSleep ==
    /\ send.pc = "sleep"
    /\ send' = [send EXCEPT !.pc = "poll",
                            !.slept = Append(@, SleepTime(send.i))]
    /\ UNCHANGED <<otherVars, gwVars, gasVars, chainVars, nsends, fauVars>>

\* A wait that gives up when no poll saw an increment: the receipt wait is
\* skipped after the last attempt.
SendPollGated ==
    /\ send.pc = "poll"
    /\ LET current == tx_count["worker"]
           found == current > send.previous_nonce
           last == send.i + 1 = POLL_ATTEMPTS
       IN  send' = [send EXCEPT !.pc = IF found THEN "receipt"
                                      ELSE IF last THEN "log_confirmed" ELSE "sleep",
                                !.current_nounce = current,
                                !.i = IF found \/ last THEN @ ELSE @ + 1,
                                !.rpc = Append(@, Rpc("get_transaction_count", "ok"))]
    /\ UNCHANGED <<otherVars, gwVars, gasVars, chainVars, nsends, fauVars>>

\* A wait with no bound on its attempts: after the last attempt without an
\* increment it starts over from attempt 0.
SendPollRestart ==
    /\ send.pc = "poll"
    /\ LET current == tx_count["worker"]
           found == current > send.previous_nonce
           last == send.i + 1 = POLL_ATTEMPTS
       IN  send' = [send EXCEPT !.pc = IF found THEN "receipt" ELSE "sleep",
                                !.current_nounce = current,
                                !.i = IF found THEN @ ELSE IF last THEN 0 ELSE @ + 1,
                                !.slept = IF ~found /\ last THEN <<>> ELSE @,
                                !.rpc = IF ~found /\ last THEN SubSeq(@, 1, 2)
                                        ELSE Append(@, Rpc("get_transaction_count", "ok"))]
    /\ UNCHANGED <<otherVars, gwVars, gasVars, chainVars, nsends, fauVars>>

\* current_nounce = await get_transaction_count(...); break when it exceeds
\* previous_nonce, else the next attempt of range(10), the receipt wait after
\* the last.
SendPoll ==
    /\ send.pc = "poll"
    /\ LET current == tx_count["worker"]
           leave == current > send.previous_nonce \/ send.i + 1 = POLL_ATTEMPTS
       IN  send' = [send EXCEPT !.pc = IF leave THEN "receipt" ELSE "sleep",
                                !.current_nounce = current,
                                !.i = IF leave THEN @ ELSE @ + 1,
                                !.rpc = Append(@, Rpc("get_transaction_count", "ok"))]
    /\ UNCHANGED <<otherVars, gwVars, gasVars, chainVars, nsends, fauVars>>

\* The read of a poll fails.
SendPollFail ==
    /\ send.pc = "poll"
    /\ send' = [send EXCEPT !.pc = "except",
                            !.caught = "NetworkError",
                            !.rpc = Append(@, Rpc("get_transaction_count", "NetworkError"))]
    /\ UNCHANGED <<otherVars, gwVars, gasVars, chainVars, nsends, fauVars>>

\* wait_for_transaction_receipt(transaction_hash, timeout=120, poll_latency=20)
\* finds the receipt of the mined transaction.
SendReceipt ==
    /\ send.pc = "receipt"
    /\ send.transaction_hash \in mined
    /\ send' = [send EXCEPT !.pc = "log_confirmed",
                            !.rpc = Append(@, Rpc("wait_for_transaction_receipt", "ok"))]
    /\ UNCHANGED <<otherVars, gwVars, gasVars, chainVars, nsends, fauVars>>

\* The receipt wait ends after its timeout with the transaction not mined.
SendReceiptTimeout ==
    /\ send.pc = "receipt"
    /\ ~(send.transaction_hash \in mined)
    /\ send' = [send EXCEPT !.pc = "except",
                            !.caught = "TimedOut",
                            !.rpc = Append(@, Rpc("wait_for_transaction_receipt", "TimedOut"))]
    /\ UNCHANGED <<otherVars, gwVars, gasVars, chainVars, nsends, fauVars>>

\* The receipt wait fails on the network.
SendReceiptFail ==
    /\ send.pc = "receipt"
    /\ send' = [send EXCEPT !.pc = "except",
                            !.caught = "NetworkError",
                            !.rpc = Append(@, Rpc("wait_for_transaction_receipt", "NetworkError"))]
    /\ UNCHANGED <<otherVars, gwVars, gasVars, chainVars, nsends, fauVars>>

\* An except clause that logs and raises the exception again.
SendExceptReraise ==
    /\ send.pc = "except"
    /\ send' = [send EXCEPT !.pc = "done",
                            !.log = Append(@, "Error sending transaction"),
                            !.outcome = "raised",
                            !.error = send.caught]
    /\ UNCHANGED <<otherVars, gwVars, gasVars, chainVars, nsends, fauVars>>

\* except Exception as e: logging.error(...)
SendExcept ==
    /\ send.pc = "except"
    /\ send' = [send EXCEPT !.pc = "log_confirmed",
                            !.log = Append(@, "Error sending transaction")]
    /\ UNCHANGED <<otherVars, gwVars, gasVars, chainVars, nsends, fauVars>>

\* logging.info("A transaction has been confirmed"); return {...}
SendReturn ==
    /\ send.pc = "log_confirmed"
    /\ send' = [send EXCEPT !.pc = "done",
                            !.log = Append(@, "A transaction has been confirmed"),
                            !.outcome = "returned",
                            !.value = FixedRecord]
    /\ UNCHANGED <<otherVars, gwVars, gasVars, chainVars, nsends, fauVars>>

-----------------------------------------------------------------------------
(* faucet *)

MaxFunds == 2      \* faucet invocations
FIRST_SLEEP == 6   \* asyncio.sleep(3), in half seconds

HexDigits == {"0","1","2","3","4","5","6","7","8","9",
              "a","b","c","d","e","f","A","B","C","D","E","F"}

\* Web3.is_address on a string that is not mixed-case: an optional 0x prefix,
\* then exactly 40 hex digits.
is_address(a) ==
    LET body == IF Len(a) >= 2 /\ a[1] = "0" /\ a[2] \in {"x", "X"}
                THEN SubSeq(a, 3, Len(a)) ELSE a
    IN  /\ Len(body) = 40
        /\ \A j \in 1..Len(body) : body[j] \in HexDigits

\* The worker addresses faucet is called with: two well-formed ones (with and
\* without prefix), one a digit short, one with a letter that is no hex digit,
\* and the empty string.
WorkerAddresses ==
    { Chars([j \in 1..40 |-> "a"]),
      [j \in 1..40 |-> "b"],
      Chars([j \in 1..39 |-> "a"]),
      Chars([j \in 1..40 |-> IF j = 7 THEN "g" ELSE "a"]),
      <<>> }

FaucetIdle ==
    [pc |-> "idle", worker_address |-> <<>>,
     transaction |-> [from |-> "faucet", nonce |-> 0, hash |-> NoHash],
     previous_nounce |-> Unset, current_nounce |-> Unset, i |-> 0,
     transaction_hash |-> NoHash, rpc |-> <<>>, slept |-> <<>>, log |-> <<>>,
     outcome |-> "none", error |-> "none"]

\* A validation that logs the invalid address and goes on, as
\* check_provided_user_address does.
faucet_log_only(a) ==
    /\ fau.pc \in {"idle", "returned", "raised"}
    /\ nfunds < MaxFunds
    /\ nfunds' = nfunds + 1
    /\ fau' = [FaucetIdle EXCEPT
                 !.pc = "read_previous_nounce",
                 !.worker_address = a,
                 !.log = IF is_address(a) THEN <<"Faucet with">>
                         ELSE <<"Invalid worker address", "Faucet with">>]
    /\ UNCHANGED <<otherVars, gwVars, gasVars, chainVars, sendVars>>

\* faucet(...) is entered with worker address a: os._exit(1) on an invalid
\* address, else the first logging.info and the (local) faucet address.
faucet(a) ==
    /\ fau.pc \in {"idle", "returned", "raised"}
    /\ nfunds < MaxFunds
    /\ nfunds' = nfunds + 1
    /\ fau' = IF is_address(a)
              THEN [FaucetIdle EXCEPT !.pc = "read_previous_nounce",
                                      !.worker_address = a,
                                      !.log = <<"Faucet with">>]
              ELSE [FaucetIdle EXCEPT !.pc = "exited",
                                      !.worker_address = a,
                                      !.log = <<"Invalid worker address">>,
                                      !.outcome = "exited"]
    /\ UNCHANGED <<otherVars, gwVars, gasVars, chainVars, sendVars>>

\* An exception of kind e leaves faucet, which catches nothing.
FaucetRaise(call, e) ==
    [fau EXCEPT !.pc = "raised", !.outcome = "raised", !.error = e,
                !.rpc = Append(@, Rpc(call, e))]

\* previous_nounce = await read_web3.eth.get_transaction_count(faucet_address)
FaucetReadPrevious ==
    /\ fau.pc = "read_previous_nounce"
    /\ fau' = [fau EXCEPT !.pc = "broadcast",
                          !.previous_nounce = tx_count["faucet"],
                          !.rpc = Append(@, Rpc("get_transaction_count", "ok"))]
    /\ UNCHANGED <<otherVars, gwVars, gasVars, chainVars, sendVars, nfunds>>

FaucetReadPreviousFail ==
    /\ fau.pc = "read_previous_nounce"
    /\ fau' = FaucetRaise("get_transaction_count", "NetworkError")
    /\ UNCHANGED <<otherVars, gwVars, gasVars, chainVars, sendVars, nfunds>>

\* The transfer the faucet signs: its nonce is previous_nounce.
FaucetTransaction ==
    [from |-> "faucet", nonce |-> fau.previous_nounce, hash |-> MaxSends + nfunds]

\* sign_transaction({... "nonce": previous_nounce ...}) and the broadcast,
\* accepted by the ledger.
FaucetBroadcast ==
    /\ fau.pc = "broadcast"
    /\ Acceptable(FaucetTransaction)
    /\ pool' = pool \cup {FaucetTransaction}
    /\ sent' = Append(sent, FaucetTransaction)
    /\ fau' = [fau EXCEPT !.pc = "first_sleep",
                          !.transaction = FaucetTransaction,
                          !.transaction_hash = FaucetTransaction.hash,
                          !.rpc = Append(@, Rpc("send_raw_transaction", "ok"))]
    /\ UNCHANGED <<otherVars, gwVars, gasVars, tx_count, mined, sendVars, nfunds>>

FaucetBroadcastReject ==
    /\ fau.pc = "broadcast"
    /\ fau' = [FaucetRaise("send_raw_transaction", "BroadcastError")
                 EXCEPT !.transaction = FaucetTransaction]
    /\ UNCHANGED <<otherVars, gwVars, gasVars, chainVars, sendVars, nfunds>>

\* await asyncio.sleep(3); logging.info("Waiting for transaction confirmation")
FaucetFirstSleep ==
    /\ fau.pc = "first_sleep"
    /\ fau' = [fau EXCEPT !.pc = "sleep",
                          !.i = 0,
                          !.slept = Append(@, FIRST_SLEEP),
                          !.log = Append(@, "Waiting for transaction confirmation")]
    /\ UNCHANGED <<otherVars, gwVars, gasVars, chainVars, sendVars, nfunds>>

\* await asyncio.sleep(sleep_time) of attempt i.
FaucetSleep ==
    /\ fau.pc = "sleep"
    /\ fau' = [fau EXCEPT !.pc = "poll",
                          !.slept = Append(@, SleepTime(fau.i))]
    /\ UNCHANGED <<otherVars, gwVars, gasVars, chainVars, sendVars, nfunds>>

\* current_nounce = await get_transaction_count(faucet_address); break when
\* it exceeds previous_nounce.
FaucetPoll ==
    /\ fau.pc = "poll"
    /\ LET current == tx_count["faucet"]
           leave == current > fau.previous_nounce \/ fau.i + 1 = POLL_ATTEMPTS
       IN  fau' = [fau EXCEPT !.pc = IF leave THEN "receipt" ELSE "sleep",
                              !.current_nounce = current,
                              !.i = IF leave THEN @ ELSE @ + 1,
                              !.rpc = Append(@, Rpc("get_transaction_count", "ok"))]
    /\ UNCHANGED <<otherVars, gwVars, gasVars, chainVars, sendVars, nfunds>>

FaucetPollFail ==
    /\ fau.pc = "poll"
    /\ fau' = FaucetRaise("get_transaction_count", "NetworkError")
    /\ UNCHANGED <<otherVars, gwVars, gasVars, chainVars, sendVars, nfunds>>

\* transaction_receipt = await wait_for_transaction_receipt(...); then the
\* logging.info of the funding transaction, and the return.
FaucetReceipt ==
    /\ fau.pc = "receipt"
    /\ fau.transaction_hash \in mined
    /\ fau' = [fau EXCEPT !.pc = "returned",
                          !.outcome = "returned",
                          !.rpc = Append(@, Rpc("wait_for_transaction_receipt", "ok")),
                          !.log = Append(@, "SFUEL funding transaction")]
    /\ UNCHANGED <<otherVars, gwVars, gasVars, chainVars, sendVars, nfunds>>

\* A receipt wait whose timeout is swallowed: the funding is logged and
\* faucet returns.
FaucetReceiptTimeoutLogged ==
    /\ fau.pc = "receipt"
    /\ ~(fau.transaction_hash \in mined)
    /\ fau' = [fau EXCEPT !.pc = "returned",
                          !.outcome = "returned",
                          !.rpc = Append(@, Rpc("wait_for_transaction_receipt", "TimedOut")),
                          !.log = Append(@, "SFUEL funding transaction")]
    /\ UNCHANGED <<otherVars, gwVars, gasVars, chainVars, sendVars, nfunds>>

FaucetReceiptTimeout ==
    /\ fau.pc = "receipt"
    /\ ~(fau.transaction_hash \in mined)
    /\ fau' = FaucetRaise("wait_for_transaction_receipt", "TimedOut")
    /\ UNCHANGED <<otherVars, gwVars, gasVars, chainVars, sendVars, nfunds>>

FaucetReceiptFail ==
    /\ fau.pc = "receipt"
    /\ fau' = FaucetRaise("wait_for_transaction_receipt", "NetworkError")
    /\ UNCHANGED <<otherVars, gwVars, gasVars, chainVars, sendVars, nfunds>>

-----------------------------------------------------------------------------
(* select_random_faucet *)

FAUCET_LAST == 499     \* random.randrange(0, 499 + 1, 1)
SELECTOR_DIGITS == 4   \* "%0.4x"
HEX_BASE == 16

\* private_key_base
private_key_base ==
    << "d", "e", "a", "d", "d", "e", "a", "d", "d", "e", "a", "d", "d", "e", "a",
       "d", "5", "f", "b", "9", "2", "d", "8", "3", "e", "d", "5", "4", "c", "0",
       "e", "a", "1", "e", "b", "7", "4", "e", "7", "2", "a", "8", "4", "e", "f",
       "9", "8", "0", "d", "4", "2", "9", "5", "3", "c", "a", "a", "a", "6", "d" >>

FaucetIndices == 0..FAUCET_LAST

LowerHex == <<"0","1","2","3","4","5","6","7","8","9","a","b","c","d","e","f">>

\* "%x" % n: the hex digits of n, most significant first, "0" for 0.
RECURSIVE FormatX(_)
FormatX(n) ==
    IF n < HEX_BASE THEN <<LowerHex[n + 1]>>
    ELSE Append(FormatX(n \div HEX_BASE), LowerHex[(n % HEX_BASE) + 1])

\* "%x" % n in the place of "%0.4x" % n: no padding.
Format04xUnpadded(n) == FormatX(n)

\* "%0.4x" % n: the hex digits of n, padded with zeros on the left to at
\* least SELECTOR_DIGITS digits.
Format04x(n) ==
    LET digits == FormatX(n)
        pad == IF Len(digits) < SELECTOR_DIGITS
               THEN [j \in 1..(SELECTOR_DIGITS - Len(digits)) |-> "0"] ELSE <<>>
    IN  pad \o digits

\* The value of a lower-case hex digit, -1 for any other character.
HexValue(c) ==
    IF \E d \in 1..HEX_BASE : LowerHex[d] = c
    THEN (CHOOSE d \in 1..HEX_BASE : LowerHex[d] = c) - 1
    ELSE -1

\* The number a sequence of hex digits writes, most significant digit first.
RECURSIVE HexNumber(_)
HexNumber(ds) ==
    IF ds = <<>> THEN 0
    ELSE HexNumber(SubSeq(ds, 1, Len(ds) - 1)) * HEX_BASE + HexValue(ds[Len(ds)])

\* faucet_private_key = private_key_base + hex_selector_bytes
FaucetKey(index) == private_key_base \o Format04x(index)

NotSelected == [index |-> Unset, key |-> <<>>]

\* select_random_faucet(), with the index random.randrange draws.
select_random_faucet(index) ==
    /\ selected_faucet' = [index |-> index, key |-> FaucetKey(index)]
    /\ UNCHANGED <<wrk, keyVars, gwVars, gasVars, chainVars, sendVars, fauVars>>

-----------------------------------------------------------------------------
(* nonce, build_transaction, sign_transaction: the run that ends in         *)
(* send_raw_transaction                                                     *)

MaxRuns == 3       \* runs of the worker started
PyNone == -2       \* the None a function returns when it falls off its end

WorkerIdle ==
    [pc |-> "idle", base |-> 0, run |-> 0,
     read |-> "none",          \* how the remote read of nonce ended
     nonce_value |-> Unset,    \* what nonce returned
     nonce_outcome |-> "none", \* "returned" or "raised"
     malformed |-> FALSE,      \* the transaction spec given to build_transaction
     built |-> "none",         \* what build_transaction returned: "dict" or "None"
     build_outcome |-> "none", \* "returned" or "raised"
     builds |-> 0,             \* calls of transaction.build_transaction
     tx_nonce |-> Unset,       \* the nonce of the built transaction
     log |-> <<>>]

\* The previous run is over: it failed before the broadcast, or its
\* send_raw_transaction returned.
RunOver ==
    \/ wrk.pc \in {"idle", "sign_raised"}
    \/ wrk.pc = "signed" /\ nsends = wrk.base + 1 /\ send.pc = "done"

\* return await read_web3.eth.get_transaction_count(worker_address)
nonce ==
    /\ RunOver
    /\ wrk.run < MaxRuns
    /\ wrk' = [WorkerIdle EXCEPT !.pc = "nonce_returned",
                                 !.base = nsends,
                                 !.run = wrk.run + 1,
                                 !.read = "ok",
                                 !.nonce_value = tx_count["worker"],
                                 !.nonce_outcome = "returned"]
    /\ UNCHANGED <<selected_faucet, keyVars, gwVars, gasVars, chainVars, sendVars, fauVars>>

\* The remote read raises: except Exception logs, and nonce falls off its
\* end, returning None.
NonceFail ==
    /\ RunOver
    /\ wrk.run < MaxRuns
    /\ wrk' = [WorkerIdle EXCEPT !.pc = "nonce_returned",
                                 !.base = nsends,
                                 !.run = wrk.run + 1,
                                 !.read = "NetworkError",
                                 !.nonce_value = PyNone,
                                 !.nonce_outcome = "returned",
                                 !.log = <<"Error getting nonce">>]
    /\ UNCHANGED <<selected_faucet, keyVars, gwVars, gasVars, chainVars, sendVars, fauVars>>

\* build_transaction(transaction, worker_address, nonce) whose
\* transaction.build_transaction(...) returns the dict.  A nonce of None is
\* not checked here: the library may build with it or refuse it.
build_transaction(m) ==
    /\ wrk.pc = "nonce_returned"
    /\ ~m
    /\ wrk' = [wrk EXCEPT !.pc = "built",
                          !.malformed = m,
                          !.built = "dict",
                          !.build_outcome = "returned",
                          !.builds = @ + 1,
                          !.tx_nonce = wrk.nonce_value]
    /\ UNCHANGED <<selected_faucet, keyVars, gwVars, gasVars, chainVars, sendVars, fauVars>>

\* transaction.build_transaction(...) raises: except Exception logs, and
\* build_transaction falls off its end, returning None.
BuildFail(m) ==
    /\ wrk.pc = "nonce_returned"
    /\ m \/ wrk.nonce_value = PyNone
    /\ wrk' = [wrk EXCEPT !.pc = "built",
                          !.malformed = m,
                          !.built = "None",
                          !.build_outcome = "returned",
                          !.builds = @ + 1,
                          !.log = Append(@, "Error building transaction")]
    /\ UNCHANGED <<selected_faucet, keyVars, gwVars, gasVars, chainVars, sendVars, fauVars>>

\* sign_transaction(transaction, worker_key, read_web3): it has no try, and
\* signing None or a transaction without an integer nonce raises.
sign_transaction ==
    /\ wrk.pc = "built"
    /\ wrk' = [wrk EXCEPT !.pc = IF wrk.built = "dict" /\ wrk.tx_nonce >= 0
                                THEN "signed" ELSE "sign_raised"]
    /\ UNCHANGED <<selected_faucet, keyVars, gwVars, gasVars, chainVars, sendVars, fauVars>>

\* The signed transaction of the run is handed to send_raw_transaction.
RunSend ==
    /\ wrk.pc = "signed"
    /\ nsends = wrk.base
    /\ send_raw_transaction(wrk.tx_nonce)

-----------------------------------------------------------------------------
(* worker_address *)

MaxLoads == 6      \* calls of worker_address
KEY_BYTES == 1     \* bytes of a private key (32 in the library)

\* The private keys Account.create can draw.
Keys == {1, 10, 171, 255}

\* The address the library derives from a private key.
AddressOf(k) == <<"address of", k>>

\* The account of a private key: Account.create, Account.from_key.
Account(k) == [address |-> AddressOf(k), key |-> k]
NoAccount == [address |-> <<>>, key |-> 0]

\* acct.key.hex(): two hex digits for every byte of the key.
KeyHex(k) ==
    LET digits == FormatX(k)
    IN  [j \in 1..(2 * KEY_BYTES - Len(digits)) |-> "0"] \o digits

\* Account.from_key(keys["privateKey"]): the account of the key the hex
\* string writes.
from_key(privateKey) == Account(HexNumber(privateKey))

NoKeys == [address |-> <<>>, privateKey |-> <<>>]
NoKeysFile == [dir |-> FALSE, exists |-> FALSE, keys |-> NoKeys]

\* One call of worker_address, as its caller and the file system saw it.
Load(found, wrote, outcome, account) ==
    [found |-> found, wrote |-> wrote, outcome |-> outcome, account |-> account]

\* A keys file put in place before the worker first runs.
KeysFileProvided(k) ==
    /\ loads = <<>>
    /\ ~keys_file.exists
    /\ keys_file' = [dir |-> TRUE, exists |-> TRUE,
                     keys |-> [address |-> AddressOf(k), privateKey |-> KeyHex(k)]]
    /\ UNCHANGED <<loads, selected_faucet, wrk, gwVars, gasVars, chainVars, sendVars, fauVars>>

\* A load that ignores the file it found: it generates and saves new keys.
WorkerAddressLoadRewrite ==
    /\ Len(loads) < MaxLoads
    /\ keys_file.exists
    /\ \E k \in Keys :
         /\ keys_file' = [keys_file EXCEPT !.keys = [address |-> AddressOf(k),
                                                      privateKey |-> KeyHex(k)]]
         /\ loads' = Append(loads, Load(TRUE, TRUE, "returned", Account(k)))
    /\ UNCHANGED <<selected_faucet, wrk, gwVars, gasVars, chainVars, sendVars, fauVars>>

\* keys_file.exists(): json.load and return Account.from_key(keys["privateKey"])
WorkerAddressLoad ==
    /\ Len(loads) < MaxLoads
    /\ keys_file.exists
    /\ loads' = Append(loads, Load(TRUE, FALSE, "returned",
                                   from_key(keys_file.keys.privateKey)))
    /\ UNCHANGED <<keys_file, selected_faucet, wrk, gwVars, gasVars, chainVars, sendVars, fauVars>>

\* No file: Account.create draws key k, the directory is made, the file is
\* written with the address and the hex of the key, and acct is returned.
worker_address(k) ==
    /\ Len(loads) < MaxLoads
    /\ ~keys_file.exists
    /\ keys_file' = [dir |-> TRUE, exists |-> TRUE,
                     keys |-> [address |-> Account(k).address,
                               privateKey |-> KeyHex(Account(k).key)]]
    /\ loads' = Append(loads, Load(FALSE, TRUE, "returned", Account(k)))
    /\ UNCHANGED <<selected_faucet, wrk, gwVars, gasVars, chainVars, sendVars, fauVars>>

\* No file, and os.makedirs raises: nothing is created.
WorkerAddressMakedirsFail ==
    /\ Len(loads) < MaxLoads
    /\ ~keys_file.exists
    /\ ~keys_file.dir
    /\ loads' = Append(loads, Load(FALSE, FALSE, "raised", NoAccount))
    /\ UNCHANGED <<keys_file, selected_faucet, wrk, gwVars, gasVars, chainVars, sendVars, fauVars>>

\* No file, and open(keys_file, "w") raises: the directory is there, the
\* file is not.
WorkerAddressOpenFail ==
    /\ Len(loads) < MaxLoads
    /\ ~keys_file.exists
    /\ keys_file' = [keys_file EXCEPT !.dir = TRUE]
    /\ loads' = Append(loads, Load(FALSE, FALSE, "raised", NoAccount))
    /\ UNCHANGED <<selected_faucet, wrk, gwVars, gasVars, chainVars, sendVars, fauVars>>

-----------------------------------------------------------------------------
(* Specifications *)

Init ==
    /\ gens = <<>>
    /\ pulled = <<>>
    /\ gas_cache = <<>>
    /\ est = [f \in Flows |-> [pc |-> "idle", data |-> NoData, gas |-> Unset,
                               raw |-> Unset, hit |-> FALSE]]
    /\ est_calls = [k \in GasKeys |-> 0]
    /\ ncalls = 0
    /\ tx_count = [a \in Accounts |-> 0]
    /\ pool = {}
    /\ mined = {}
    /\ send = SendIdle
    /\ nsends = 0
    /\ fau = FaucetIdle
    /\ nfunds = 0
    /\ selected_faucet = NotSelected
    /\ sent = <<>>
    /\ wrk = WorkerIdle
    /\ keys_file = NoKeysFile
    /\ loads = <<>>

NextGateways ==
    \/ rotate_gateways
    \/ \E g \in DOMAIN gens : GenNext(g)

Next ==
    \/ \E n \in 0..MaxCount : send_raw_transaction(n)
    \/ SendReadPrevious
    \/ SendReadPreviousFail
    \/ SendBroadcast
    \/ SendBroadcastReject
    \/ SendSleep
    \/ SendPoll
    \/ SendPollFail
    \/ SendReceipt
    \/ SendReceiptTimeout
    \/ SendReceiptFail
    \/ SendExcept
    \/ SendReturn
    \/ Mine
    \/ Drop
    \/ OtherTx("worker")

Spec == Init /\ [][Next]_vars

NextFaucet ==
    \/ \E a \in WorkerAddresses : faucet(a)
    \/ FaucetReadPrevious
    \/ FaucetReadPreviousFail
    \/ FaucetBroadcast
    \/ FaucetBroadcastReject
    \/ FaucetFirstSleep
    \/ FaucetSleep
    \/ FaucetPoll
    \/ FaucetPollFail
    \/ FaucetReceipt
    \/ FaucetReceiptTimeout
    \/ FaucetReceiptFail
    \/ Mine
    \/ Drop
    \/ OtherTx("faucet")

SpecFaucet == Init /\ [][NextFaucet]_vars

\* The worker runs one of the two flows: they use different accounts and
\* share no variable, so each is explored on its own.
NextFlows ==
    \/ nfunds = 0 /\ tx_count["faucet"] = 0 /\ Next
    \/ nsends = 0 /\ tx_count["worker"] = 0 /\ NextFaucet

SpecFlows == Init /\ [][NextFlows]_vars

\* The steps of a running send_raw_transaction: each is one await of the
\* coroutine, and an await returns or raises.
SendStep ==
    \/ SendReadPrevious
    \/ SendReadPreviousFail
    \/ SendBroadcast
    \/ SendBroadcastReject
    \/ SendSleep
    \/ SendPoll
    \/ SendPollFail
    \/ SendReceipt
    \/ SendReceiptTimeout
    \/ SendReceiptFail
    \/ SendExcept
    \/ SendReturn

\* The steps of a running faucet.
FaucetStep ==
    \/ FaucetReadPrevious
    \/ FaucetReadPreviousFail
    \/ FaucetBroadcast
    \/ FaucetBroadcastReject
    \/ FaucetFirstSleep
    \/ FaucetSleep
    \/ FaucetPoll
    \/ FaucetPollFail
    \/ FaucetReceipt
    \/ FaucetReceiptTimeout
    \/ FaucetReceiptFail

\* The event loop keeps running a coroutine that can take a step; the
\* ledger owes nothing (it may never mine), and callers may stop calling.
SpecFlowsFair ==
    Init /\ [][NextFlows]_vars /\ WF_vars(SendStep) /\ WF_vars(FaucetStep)

NextRun ==
    \/ nonce
    \/ NonceFail
    \/ \E m \in BOOLEAN : build_transaction(m)
    \/ \E m \in BOOLEAN : BuildFail(m)
    \/ sign_transaction
    \/ RunSend
    \/ SendReadPrevious
    \/ SendReadPreviousFail
    \/ SendBroadcast
    \/ SendBroadcastReject
    \/ SendSleep
    \/ SendPoll
    \/ SendPollFail
    \/ SendReceipt
    \/ SendReceiptTimeout
    \/ SendReceiptFail
    \/ SendExcept
    \/ SendReturn
    \/ Mine
    \/ Drop
    \/ OtherTx("worker")

SpecRun == Init /\ [][NextRun]_vars

NextKeys ==
    \/ \E k \in Keys : KeysFileProvided(k)
    \/ WorkerAddressLoad
    \/ \E k \in Keys : worker_address(k)
    \/ WorkerAddressMakedirsFail
    \/ WorkerAddressOpenFail

SpecKeys == Init /\ [][NextKeys]_vars

SpecGateways == Init /\ [][NextGateways]_vars

NextSelect == \E index \in FaucetIndices : select_random_faucet(index)

SpecSelect == Init /\ [][NextSelect]_vars

NextEstimate ==
    \/ \E f \in Flows, d \in Data : estimate_gas(f, d)
    \/ \E f \in Flows, E \in RawEstimates : EstimateReturn(f, E)
    \/ \E f \in Flows : EstimateRaise(f)

SpecEstimate == Init /\ [][NextEstimate]_vars

NextEstimateSeq ==
    \/ \E f \in Flows, d \in Data : estimate_gas_seq(f, d)
    \/ \E f \in Flows, E \in RawEstimates : EstimateReturn(f, E)
    \/ \E f \in Flows : EstimateRaise(f)

SpecEstimateSeq == Init /\ [][NextEstimateSeq]_vars

-----------------------------------------------------------------------------
(* Claims about estimate_gas *)

\* A step in which flow f enters estimate_gas.
CallStep(f) == ncalls' = ncalls + 1 /\ est'[f] # est[f]

\* A step in which flow f's remote estimator call ends without an answer.
FailStep(f) ==
    /\ est[f].pc = "estimating"
    /\ est'[f].pc # "estimating"
    /\ est'[f].raw = Unset

\* C4 as stated: for any sequence of estimate calls on one cache the remote
\* estimator is invoked only once per distinct key, a call on a cached key
\* carries the cached gas, and two calls with the same key yield the same gas.
C4_OncePerKey ==
    /\ \A k \in GasKeys : est_calls[k] <= 1
    /\ \A f \in Flows :
         (est[f].pc = "returned" /\ est[f].hit) =>
             est[f].gas = gas_cache[GasKey(est[f].data)]
    /\ \A f, g \in Flows :
         (est[f].pc = "returned" /\ est[g].pc = "returned"
            /\ GasKey(est[f].data) = GasKey(est[g].data)) =>
             est[f].gas = est[g].gas

\* C4 amended: in a sequence of estimate calls, a remote estimator call is only
\* ever issued for a key that is not cached (so a key is estimated again only
\* after an estimation of it failed); a call whose key is cached makes no remote
\* call, leaves the cache unchanged and sets the gas to the cached value; cached
\* entries never change, and two calls with the same key yield the same gas.
C4_CachedKeyNoRemoteCall ==
    /\ [][ /\ \A k \in GasKeys :
                est_calls'[k] # est_calls[k] => ~(k \in DOMAIN gas_cache)
           /\ \A f \in Flows :
                (CallStep(f) /\ GasKey(est'[f].data) \in DOMAIN gas_cache) =>
                    /\ gas_cache' = gas_cache
                    /\ est_calls' = est_calls
                    /\ est'[f].pc = "returned"
                    /\ est'[f].gas = gas_cache[GasKey(est'[f].data)]
           /\ \A k \in DOMAIN gas_cache :
                k \in DOMAIN gas_cache' /\ gas_cache'[k] = gas_cache[k]
         ]_vars
    /\ [](\A f, g \in Flows :
            (est[f].pc = "returned" /\ est[g].pc = "returned"
               /\ GasKey(est[f].data) = GasKey(est[g].data)) =>
                est[f].gas = est[g].gas)

\* C4 witness: one flow estimated a key remotely and stored it, another flow
\* then called with different data of the same key and was served from the cache.
C4_Witness ==
    \E f, g \in Flows :
        /\ f # g
        /\ est[f].pc = "returned" /\ ~est[f].hit
        /\ est[g].pc = "returned" /\ est[g].hit
        /\ est[f].data # est[g].data
        /\ GasKey(est[f].data) = GasKey(est[g].data)
        /\ est_calls[GasKey(est[f].data)] = 1

\* The value C5 states for a raw estimate E, in 1/ScaleDen gas.
C5_Stated(E) ==
    IF E >= SMALL_ESTIMATE
    THEN Max(GAS_FLOOR * ScaleDen, E * ScaleNum)
    ELSE Max(GAS_FLOOR * ScaleDen, (E + SMALL_BONUS) * ScaleDen)

\* C5 as stated: for a raw estimate E the value stored and returned is
\* max(10,000,000, E*1.5) when E >= 100,000 and max(10,000,000, E+500,000)
\* when E < 100,000.
C5_StoredValue ==
    \A f \in Flows :
        (est[f].pc = "returned" /\ ~est[f].hit) =>
            /\ est[f].gas = C5_Stated(est[f].raw)
            /\ gas_cache[GasKey(est[f].data)] = C5_Stated(est[f].raw)

\* C6: every value in the gas cache is at least 10,000,000 and so is the gas
\* of every transaction estimate_gas returned.
C6_GasFloor ==
    /\ \A k \in DOMAIN gas_cache : gas_cache[k] >= GAS_FLOOR * ScaleDen
    /\ \A f \in Flows :
         est[f].pc = "returned" => est[f].gas >= GAS_FLOOR * ScaleDen

\* C6 witness: a small raw estimate was stored, and another call returned it.
C6_Witness ==
    \E f, g \in Flows :
        /\ est[f].pc = "returned" /\ ~est[f].hit /\ est[f].raw < SMALL_ESTIMATE
        /\ est[g].pc = "returned" /\ est[g].hit
        /\ GasKey(est[f].data) = GasKey(est[g].data)
        /\ GasKey(est[f].data) \in DOMAIN gas_cache

\* C7: when the remote estimator fails on an uncached key the call ends in an
\* error for its caller and the cache is unchanged, with no entry for the key;
\* and a call on a key that is not cached always invokes the estimator, so the
\* next call with the failed key estimates again.
C7_FailureNotCached ==
    [][ /\ \A f \in Flows :
             FailStep(f) =>
                 /\ est'[f].pc = "raised"
                 /\ gas_cache' = gas_cache
                 /\ ~(GasKey(est[f].data) \in DOMAIN gas_cache')
        /\ \A f \in Flows :
             (CallStep(f) /\ ~(GasKey(est'[f].data) \in DOMAIN gas_cache)) =>
                 /\ est'[f].pc = "estimating"
                 /\ est_calls'[GasKey(est'[f].data)]
                      = est_calls[GasKey(est'[f].data)] + 1
      ]_vars

\* C7 witness: a flow's estimation failed, the key is still absent from the
\* cache, and a later call with that key is at the remote estimator again.
C7_Witness ==
    \E f, g \in Flows :
        /\ est[f].pc = "raised"
        /\ est[g].pc = "estimating"
        /\ GasKey(est[f].data) = GasKey(est[g].data)
        /\ ~(GasKey(est[f].data) \in DOMAIN gas_cache)
        /\ est_calls[GasKey(est[f].data)] = 2

-----------------------------------------------------------------------------
(* Claims about rotate_gateways *)

\* The distinct URLs of the gateway list.
GatewayUrls == { gateways[i] : i \in 1..N }

\* The first 2 * N elements generator g yielded.
FirstTwoRounds(g) == SubSeq(pulled[g], 1, 2 * N)

\* C8 as stated: 2 * N elements taken from one sequence hold each URL exactly
\* twice, and the first N and the next N are both the list in its order.
C8_EachUrlTwice ==
    \A g \in DOMAIN pulled :
        Len(pulled[g]) >= 2 * N =>
            /\ \A u \in GatewayUrls : CountIn(u, FirstTwoRounds(g)) = 2
            /\ SubSeq(pulled[g], 1, N) = gateways
            /\ SubSeq(pulled[g], N + 1, 2 * N) = gateways

\* C8 amended: 2 * N elements taken from one sequence hold each URL twice as
\* often as the list holds it (the list names one gateway three times), and
\* the first N and the next N are both the list in its order.
C8_EachEntryTwice ==
    \A g \in DOMAIN pulled :
        Len(pulled[g]) >= 2 * N =>
            /\ \A u \in GatewayUrls :
                 CountIn(u, FirstTwoRounds(g)) = 2 * CountIn(u, gateways)
            /\ SubSeq(pulled[g], 1, N) = gateways
            /\ SubSeq(pulled[g], N + 1, 2 * N) = gateways

\* C8 witness: 2 * N elements have been taken from a sequence.
C8_Witness == \E g \in DOMAIN pulled : Len(pulled[g]) = 2 * N

\* C9: every sequence starts at index 0 and its i-th element is
\* gateways[i mod N]; a pull moves the position of the pulled sequence only,
\* and creating a sequence moves none.
C9_IndependentSequences ==
    /\ [](\A g \in DOMAIN gens :
            /\ gens[g] = Len(pulled[g])
            /\ \A j \in 1..Len(pulled[g]) :
                 pulled[g][j] = gateways[((j - 1) % N) + 1])
    /\ [][ /\ Len(gens') > Len(gens) =>
                /\ gens'[Len(gens')] = 0
                /\ \A h \in DOMAIN gens :
                     gens'[h] = gens[h] /\ pulled'[h] = pulled[h]
           /\ \A g \in DOMAIN gens :
                gens'[g] # gens[g] =>
                    /\ gens'[g] = gens[g] + 1
                    /\ \A h \in DOMAIN gens \ {g} :
                         gens'[h] = gens[h] /\ pulled'[h] = pulled[h]
         ]_vars

\* C9 witness: two sequences at different positions, one of them past the
\* end of the list, pulled in interleaved order.
C9_Witness ==
    /\ Len(gens) = 2
    /\ gens[1] = N + 2
    /\ gens[2] = 3
    /\ pulled[1][N + 2] = gateways[2]
    /\ pulled[2][3] = gateways[3]

-----------------------------------------------------------------------------
(* Claims about send_raw_transaction *)

\* The invocation made the RPC call c and it ended with result r.
SendRpcEnded(c, r) == \E j \in 1..Len(send.rpc) : send.rpc[j] = Rpc(c, r)

\* The broadcast calls the invocation made.
SendBroadcasts == CallsOf("send_raw_transaction", send.rpc)

\* C1: whenever the receipt wait times out, the finished operation hands its
\* caller a TimedOut error, and it did not end as a confirmed, normal return.
C1_TimeoutSurfaced ==
    (send.pc = "done" /\ SendRpcEnded("wait_for_transaction_receipt", "TimedOut")) =>
        /\ send.outcome = "raised"
        /\ send.error = "TimedOut"
        /\ ~(\E j \in 1..Len(send.log) : send.log[j] = "A transaction has been confirmed")

\* C2: when the remote rejects the broadcast, the finished operation hands
\* its caller a BroadcastError, and the broadcast was attempted once only.
C2_RejectionSurfaced ==
    (send.pc = "done" /\ SendRpcEnded("send_raw_transaction", "BroadcastError")) =>
        /\ send.outcome = "raised"
        /\ send.error = "BroadcastError"
        /\ SendBroadcasts = 1

\* C3 as stated: every finished invocation made exactly one broadcast call,
\* on every path.
C3_ExactlyOneBroadcast ==
    send.pc = "done" => SendBroadcasts = 1

\* C3 amended: an invocation never makes more than one broadcast call; a
\* finished invocation made exactly one when its baseline read of the
\* transaction count succeeded, whatever happened to its later reads, and
\* none when the baseline read failed.
C3_OneBroadcastAfterBaseline ==
    /\ SendBroadcasts <= 1
    /\ send.pc = "done" =>
         (SendBroadcasts = 1 <=> send.rpc[1] = Rpc("get_transaction_count", "ok"))

\* C3 witness: a finished invocation that broadcast once although one of its
\* remote reads failed afterwards.
C3_Witness ==
    /\ send.pc = "done"
    /\ SendBroadcasts = 1
    /\ SendRpcEnded("get_transaction_count", "NetworkError")

-----------------------------------------------------------------------------
(* Claims about faucet *)

\* C10: a faucet invocation with an invalid worker address aborts the process
\* at once: it is past its entry only as "exited", it made no RPC call (no
\* nonce read, no broadcast, no receipt wait), and signed and sent nothing.
C10_InvalidAddressAborts ==
    (fau.pc # "idle" /\ ~is_address(fau.worker_address)) =>
        /\ fau.pc = "exited"
        /\ fau.rpc = <<>>
        /\ fau.transaction_hash = NoHash
        /\ \A t \in pool : t.hash # MaxSends + nfunds

\* C10 witness: in a second invocation faucet was called with the address
\* that is a digit short, and the process exited.
C10_Witness ==
    /\ fau.pc = "exited"
    /\ nfunds > 1
    /\ Len(fau.worker_address) = 41
    /\ fau.log = <<"Invalid worker address">>

-----------------------------------------------------------------------------
(* Claims about select_random_faucet *)

\* The part of a derived key that follows the base secret.
Selector(key) == SubSeq(key, Len(private_key_base) + 1, Len(key))

\* C11: every selection yields an index i with 0 <= i < 500 and a key that is
\* the base secret followed by exactly 4 hex digits that write i; so the key
\* is fixed by the index, and no other index of the range derives the same key.
C11_IndexAndKey ==
    selected_faucet # NotSelected =>
        LET i == selected_faucet.index
            key == selected_faucet.key
        IN  /\ 0 <= i /\ i < 500
            /\ Len(key) = Len(private_key_base) + 4
            /\ SubSeq(key, 1, Len(private_key_base)) = private_key_base
            /\ \A j \in 1..Len(Selector(key)) : HexValue(Selector(key)[j]) >= 0
            /\ HexNumber(Selector(key)) = i
            /\ \A k \in FaucetIndices : k # i => FaucetKey(k) # key

\* C11 witness: the last faucet of the pool was selected; its selector is 01f3.
C11_Witness ==
    /\ selected_faucet.index = 499
    /\ Selector(selected_faucet.key) = <<"0", "1", "f", "3">>

-----------------------------------------------------------------------------
(* Claims about the nonce-increment wait of both flows *)

\* The polls in a trace of RPC calls: the reads of the transaction count
\* after the first one, which is the baseline read.
Polls(rpc) ==
    IF CallsOf("get_transaction_count", rpc) = 0 THEN 0
    ELSE CallsOf("get_transaction_count", rpc) - 1

\* The last call of the trace returned (it did not raise).
PollAnswered(rpc) == rpc[Len(rpc)].result = "ok"

\* The sleeps of the polling loop of faucet: all but the sleep of 3 seconds
\* that precedes the loop.
FaucetLoopSleeps == IF fau.slept = <<>> THEN <<>> ELSE Tail(fau.slept)

\* The sleeps (in half seconds) and polls of one wait: at most 10 polls, the
\* sleep before poll number attempt is attempt * 1.5 + 1 seconds, one sleep
\* before each poll, none before the broadcast.
WaitSchedule(sleeps, rpc, polling) ==
    /\ Polls(rpc) <= 10
    /\ \A j \in 1..Len(sleeps) : sleeps[j] = 3 * (j - 1) + 2
    /\ Len(sleeps) = Polls(rpc) + (IF polling THEN 1 ELSE 0)
    /\ CallsOf("send_raw_transaction", rpc) = 0 => Polls(rpc) = 0

\* C12: after a broadcast the wait polls the transaction count at most 10
\* times, sleeps attempt * 1.5 + 1 seconds before poll number attempt, and a
\* poll happens only while no earlier poll observed a count above the baseline:
\* the poll that observes one is the last, and the receipt wait follows it.
C12_PollSchedule ==
    /\ [](/\ WaitSchedule(send.slept, send.rpc, send.pc = "poll")
          /\ WaitSchedule(FaucetLoopSleeps, fau.rpc, fau.pc = "poll")
          /\ fau.slept # <<>> => fau.slept[1] = 6)
    /\ [][ /\ Polls(send.rpc') > Polls(send.rpc) =>
                /\ Polls(send.rpc') = Polls(send.rpc) + 1
                /\ send.current_nounce <= send.previous_nonce
                /\ PollAnswered(send.rpc') =>
                     ((send'.pc = "receipt") <=>
                        (send'.current_nounce > send.previous_nonce
                           \/ Polls(send.rpc') = 10))
           /\ Polls(fau.rpc') > Polls(fau.rpc) =>
                /\ Polls(fau.rpc') = Polls(fau.rpc) + 1
                /\ fau.current_nounce <= fau.previous_nounce
                /\ PollAnswered(fau.rpc') =>
                     ((fau'.pc = "receipt") <=>
                        (fau'.current_nounce > fau.previous_nounce
                           \/ Polls(fau.rpc') = 10))
         ]_vars

\* C12 witness: the fourth poll of a send_raw_transaction wait was the first
\* to observe a count above the baseline; the flow is at the receipt wait.
C12_Witness ==
    /\ send.pc = "receipt"
    /\ Polls(send.rpc) = 4
    /\ send.slept = <<2, 5, 8, 11>>
    /\ send.current_nounce > send.previous_nonce

\* C12 witness of faucet: all 10 polls of a faucet wait ended without an
\* observed increment.
C12_FaucetExhausted ==
    /\ fau.pc = "receipt"
    /\ Polls(fau.rpc) = 10
    /\ fau.current_nounce = fau.previous_nounce

-----------------------------------------------------------------------------
(* Claims about the receipt wait of send_raw_transaction *)

\* The receipt waits the invocation made.
SendReceiptWaits == CallsOf("wait_for_transaction_receipt", send.rpc)

\* C13 as stated: after a successful broadcast the receipt wait is always
\* performed.
C13_ReceiptAlwaysWaited ==
    (send.pc = "done" /\ SendRpcEnded("send_raw_transaction", "ok")) =>
        SendReceiptWaits = 1

\* C13 amended: after a successful broadcast the receipt wait is performed
\* whenever the polling loop ends, on an observed increment as well as after
\* 10 polls without one; it is skipped only when the read of a poll raises.
C13_ReceiptAfterPolling ==
    (send.pc = "done" /\ SendRpcEnded("send_raw_transaction", "ok")) =>
        IF SendRpcEnded("get_transaction_count", "NetworkError")
        THEN SendReceiptWaits = 0
        ELSE /\ SendReceiptWaits = 1
             /\ send.rpc[Len(send.rpc)].call = "wait_for_transaction_receipt"
             /\ send.current_nounce > send.previous_nonce \/ Polls(send.rpc) = 10

\* C13 witness: all 10 polls ended without an increment, and the finished
\* invocation waited for the receipt.
C13_Witness ==
    /\ send.pc = "done"
    /\ Polls(send.rpc) = 10
    /\ send.current_nounce <= send.previous_nonce
    /\ SendReceiptWaits = 1


-----------------------------------------------------------------------------
(* Claims about nonce, build_transaction and the run that broadcasts        *)

\* C14: for one identity running nonce / build / sign / send_raw_transaction
\* one run after the other, the nonces of the successive accepted broadcasts
\* are strictly increasing, also after a confirmation wait that ended with
\* the transaction not mined.
C14_NoncesIncrease ==
    \A j, k \in DOMAIN sent :
        (j < k /\ sent[j].from = "worker" /\ sent[k].from = "worker")
            => sent[j].nonce < sent[k].nonce

\* C16: when the remote read of the transaction count fails, nonce ends in
\* an error propagated to its caller and returns no normal value.
C16_NonceFailurePropagates ==
    wrk.read = "NetworkError" => wrk.nonce_outcome = "raised"

\* C17: when build_transaction is given a malformed transaction spec, it
\* ends in a BuildError propagated to its caller, returns no normal value,
\* and the build is not tried again.
C17_BuildErrorPropagates ==
    (wrk.malformed /\ wrk.builds > 0)
        => wrk.build_outcome = "raised" /\ wrk.builds = 1


-----------------------------------------------------------------------------
(* Claims about termination *)

SendRunning == send.pc \notin {"idle", "done"}
FaucetRunning == fau.pc \notin {"idle", "exited", "returned", "raised"}

\* C15: every invocation of send_raw_transaction and of faucet terminates,
\* whatever the ledger does (the count never increments, the receipt never
\* comes), as long as each single remote call returns or fails.
C15_Terminates ==
    /\ SendRunning ~> (send.pc = "done")
    /\ FaucetRunning ~> (fau.pc \in {"returned", "raised"})

\* C15 witness: a send_raw_transaction that returned after all its polls saw
\* no increment and after its receipt wait timed out.
C15_Witness ==
    /\ send.pc = "done"
    /\ Polls(send.rpc) = POLL_ATTEMPTS
    /\ send.current_nounce = send.previous_nonce
    /\ SendRpcEnded("wait_for_transaction_receipt", "TimedOut")

\* The same for faucet: it ended after all its polls saw no increment and
\* after its receipt wait timed out.
C15_FaucetWitness ==
    /\ fau.pc = "raised"
    /\ Polls(fau.rpc) = POLL_ATTEMPTS
    /\ fau.current_nounce = fau.previous_nounce
    /\ fau.error = "TimedOut"


-----------------------------------------------------------------------------
(* Claims about worker_address *)

\* The calls that wrote the keys file.
Writes == {j \in DOMAIN loads : loads[j].wrote}

-----------------------------------------------------------------------------
(* Claims about concurrent estimate_gas *)

\* A step in which the remote estimator answers flow f.
AnswerStep(f) == est[f].pc = "estimating" /\ est'[f].raw # Unset

\* Both flows missed on the same key and both have completed.
BothMissed ==
    /\ \A f \in Flows : est[f].pc = "returned" /\ ~est[f].hit
    /\ GasKey(est["f1"].data) = GasKey(est["f2"].data)

\* C19: two flows that call estimate_gas concurrently with the same uncached
\* key may both invoke the remote estimator; every answer overwrites the
\* entry of the key with the gas computed from it, so after both completed
\* the cache holds one entry for the key, written by the later writer, and
\* each caller's transaction carries the gas computed from its own answer.
C19_LastWriterWins ==
    /\ [][ \A f \in Flows : AnswerStep(f) =>
             LET k == GasKey(est[f].data)
             IN  /\ est'[f].pc = "returned"
                 /\ DOMAIN gas_cache' = DOMAIN gas_cache \cup {k}
                 /\ gas_cache'[k] = do_estimate_gas(est'[f].raw)
                 /\ est'[f].gas = do_estimate_gas(est'[f].raw)
                 /\ \A x \in DOMAIN gas_cache : x # k => gas_cache'[x] = gas_cache[x]
         ]_vars
    /\ [](BothMissed =>
            LET k == GasKey(est["f1"].data)
            IN  /\ k \in DOMAIN gas_cache
                /\ gas_cache[k] \in {do_estimate_gas(est[f].raw) : f \in Flows}
                /\ \A f \in Flows : est[f].gas = do_estimate_gas(est[f].raw))

\* C19 witness: both flows missed on one key, the remote estimator was
\* invoked twice for it with different answers, and both have completed.
C19_Witness ==
    /\ BothMissed
    /\ est_calls[GasKey(est["f1"].data)] = 2
    /\ est["f1"].raw = 66666
    /\ est["f2"].raw = 7000000
    /\ ncalls = 2


-----------------------------------------------------------------------------
(* Claims about the steps of faucet *)

\* The remote call faucet makes at position j of an invocation that made n.
FaucetCallAt(j, n) ==
    IF j = 1 THEN {"get_transaction_count"}
    ELSE IF j = 2 THEN {"send_raw_transaction"}
    ELSE IF j < n THEN {"get_transaction_count"}
    ELSE {"get_transaction_count", "wait_for_transaction_receipt"}

FaucetLogged(m) == \E j \in 1..Len(fau.log) : fau.log[j] = m

\* C20: faucet with a valid address reads the faucet account's nonce, signs
\* a transfer carrying that nonce, broadcasts it, polls the nonce and waits
\* for the receipt, in this order and each step at most once; the funding
\* transaction is logged only after the receipt was obtained, and a failure
\* of a remote call leaves faucet as an error, without the log.
C20_FaucetStepOrder ==
    LET rpc == fau.rpc
        n == Len(rpc)
    IN  /\ \A j \in 1..n : rpc[j].call \in FaucetCallAt(j, n)
        /\ CallsOf("send_raw_transaction", rpc) <= 1
        /\ CallsOf("wait_for_transaction_receipt", rpc) <= 1
        /\ Polls(rpc) <= POLL_ATTEMPTS
        /\ n >= 2 => /\ fau.previous_nounce # Unset
                     /\ fau.transaction.nonce = fau.previous_nounce
        /\ \A j \in 1..n : rpc[j].result # "ok" =>
              /\ j = n
              /\ fau.pc = "raised"
              /\ fau.outcome = "raised"
              /\ fau.error = rpc[j].result
        /\ FaucetLogged("SFUEL funding transaction") <=>
              (n > 0 /\ rpc[n] = Rpc("wait_for_transaction_receipt", "ok"))
        /\ FaucetLogged("SFUEL funding transaction") =>
              fau.pc = "returned" /\ fau.outcome = "returned"

\* C20 witness: a funding that read the nonce 1, broadcast a transfer with
\* nonce 1, polled twice, got the receipt and logged the transaction.
C20_Witness ==
    /\ fau.pc = "returned"
    /\ fau.previous_nounce = 1
    /\ fau.transaction.nonce = 1
    /\ Polls(fau.rpc) = 2
    /\ FaucetLogged("SFUEL funding transaction")


-----------------------------------------------------------------------------
(* Claims about what send_raw_transaction hands its caller *)

\* C21: send_raw_transaction never propagates an exception to its caller
\* and returns the same fixed record on every path: after a confirmed
\* receipt, after a rejected broadcast, after a failed read of the
\* transaction count and after a receipt timeout.
C21_AlwaysFixedRecord ==
    /\ send.outcome # "raised"
    /\ send.error = "none"
    /\ send.pc = "done" =>
         /\ send.outcome = "returned"
         /\ send.value = FixedRecord
         /\ send.log[Len(send.log)] = "A transaction has been confirmed"
         /\ send.caught # "none" =>
              \E j \in 1..Len(send.log) : send.log[j] = "Error sending transaction"

\* C21 witness: the second invocation returned the fixed record after the
\* ledger rejected its broadcast.
C21_Witness ==
    /\ nsends = 2
    /\ send.pc = "done"
    /\ send.caught = "BroadcastError"
    /\ send.value = FixedRecord

\* The other paths of C21 are taken too: a receipt, a failed read, a timeout.
C21_OtherPaths ==
    /\ send.pc = "done"
    /\ send.value = FixedRecord
    /\ \/ SendRpcEnded("wait_for_transaction_receipt", "ok")
       \/ SendRpcEnded("get_transaction_count", "NetworkError")
       \/ SendRpcEnded("wait_for_transaction_receipt", "TimedOut")


-----------------------------------------------------------------------------
(* Claims about the baseline of the nonce-increment wait *)

\* The flows as the wait sees them: the trace of remote calls, the baseline,
\* the count last read, the attempt, and the account whose count is read.
WaitOf(x) ==
    IF x = "worker"
    THEN [pc |-> send.pc, rpc |-> send.rpc, previous |-> send.previous_nonce,
          current |-> send.current_nounce, i |-> send.i]
    ELSE [pc |-> fau.pc, rpc |-> fau.rpc, previous |-> fau.previous_nounce,
          current |-> fau.current_nounce, i |-> fau.i]

\* The position of the broadcast call in a trace, 0 when there is none.
BroadcastAt(rpc) ==
    IF \E j \in 1..Len(rpc) : rpc[j].call = "send_raw_transaction"
    THEN CHOOSE j \in 1..Len(rpc) : rpc[j].call = "send_raw_transaction"
    ELSE 0

\* The flow left the polling loop before its last attempt.
LeftEarly(w) == w.pc = "receipt" /\ Polls(w.rpc) < POLL_ATTEMPTS

\* C22: in send_raw_transaction and in faucet the baseline transaction
\* count is read before the broadcast call is issued and is not read again,
\* and every count compared with it is read after the broadcast; so a flow
\* leaves the polling loop early only if the account's count rose above the
\* value it had at the baseline, before the broadcast.
C22_BaselineBeforeBroadcast ==
    /\ [](\A x \in Accounts :
            LET w == WaitOf(x)
                b == BroadcastAt(w.rpc)
            IN  /\ b # 0 =>
                     /\ b = 2
                     /\ w.rpc[1] = Rpc("get_transaction_count", "ok")
                     /\ w.previous # Unset
                /\ \A j \in 1..Len(w.rpc) :
                     (j > 1 /\ w.rpc[j].call = "get_transaction_count") =>
                         (b # 0 /\ j > b)
                /\ LeftEarly(w) =>
                     /\ w.current > w.previous
                     /\ tx_count[x] > w.previous)
    /\ [][\A x \in Accounts :
            /\ (BroadcastAt(WaitOf(x).rpc) = 0 /\ WaitOf(x).previous = Unset
                  /\ WaitOf(x)'.previous # Unset) =>
                   /\ WaitOf(x)'.previous = tx_count[x]
                   /\ BroadcastAt(WaitOf(x)'.rpc) = 0
            /\ (WaitOf(x).previous # Unset /\ Len(WaitOf(x)'.rpc) > Len(WaitOf(x).rpc)) =>
                   WaitOf(x)'.previous = WaitOf(x).previous
         ]_vars

\* C22 witness: after the broadcast the account's count rose above the
\* baseline by a transaction that is not the one broadcast, and the first
\* poll left the loop on it.
C22_Witness ==
    /\ send.pc = "receipt"
    /\ Polls(send.rpc) = 1
    /\ send.previous_nonce = 0
    /\ send.current_nounce = 1
    /\ send.transaction_hash \notin mined

=============================================================================
